---- MODULE Spec2Model ----
(***************************************************************************)
(* Model of AbstractPopupRedirectResolver                                  *)
(* (packages/auth-ts/src/core/abstract_popup_redirect_resolver.ts).        *)
(*                                                                         *)
(* The resolver owns two Outcome Handlers (PopupResultManager and          *)
(* RedirectManager) and the current auth context.  onEvent runs without    *)
(* suspension; execIdpTask suspends at `await task(params)`, so the start  *)
(* of a task and its completion are separate steps.  The opener passed to  *)
(* the popup handler suspends at initializeAndWait and at openPopup.       *)
(*                                                                         *)
(* The two Outcome Handler classes live in ./strategies/popup and          *)
(* ./strategies/redirect; their behaviour is taken from their contract     *)
(* (operators whose names start with Popup... and Redirect...).            *)
(*                                                                         *)
(* The specifications share the variables and the callers' actions:        *)
(*   Spec      the callers, the event transport and the IdP tasks; the     *)
(*             initializeAndWait and openPopup calls of the host platform  *)
(*             stay outstanding;                                           *)
(*   SpecHost  the callers and the completions of the host platform's      *)
(*             initializeAndWait and openPopup calls; no events.           *)
(*   SpecLive  Spec with the started IdP tasks bound to terminate;          *)
(*   SpecAuth  callers with two auth contexts that hold different user     *)
(*             sessions, and the events; the tasks stay in flight.         *)
(* onEvent and execIdpTask neither read nor write initialized, opener,     *)
(* redirectInit or unhandled, and the host's completions touch nothing     *)
(* else, so the two halves do not interfere.  A resolver whose host is     *)
(* already initialized is covered by Init.                                 *)
(***************************************************************************)
EXTENDS Integers, Sequences, FiniteSets, Bags, TLC

\* ---------------------------------------------------------------- bounds
MaxEventId == 2          \* popup flows use the eventIds 1..MaxEventId
MaxEvents == 2           \* events delivered to onEvent in one run
MaxRedirectCalls == 2    \* getRedirectResult calls in one run

\* ------------------------------------------------------------ data model
NoEventId == 0           \* eventId: string | null  -- the null eventId
EventIds == 1..MaxEventId
EventIdsOrNull == EventIds \cup {NoEventId}

PopupTypes == {"SIGN_IN_VIA_POPUP", "LINK_VIA_POPUP", "REAUTH_VIA_POPUP"}
RedirectTypes ==
  {"SIGN_IN_VIA_REDIRECT", "LINK_VIA_REDIRECT", "REAUTH_VIA_REDIRECT"}
AuthEventType == PopupTypes \cup RedirectTypes \cup {"UNKNOWN"}

NoError == "none"        \* event.error absent
EventErrors == {"eventError"}
TaskError == "taskError" \* what a failing IdP task throws

Null == "null"
Undefined == "undefined"

NoAuth == "unset"        \* `private auth!: Auth` before any assignment
Auths == {"a1", "a2"}
CallerAuths == {"a1"}    \* the auth context the callers of Spec pass

NoUser == [uid |-> 0, redirectEventId_ |-> NoEventId]   \* find(...) = undefined

\* The events the transport delivers.  The response payload of an event is
\* tied to its eventId: UrlOf(e) is the IdP callback of flow e, SessionOf(e)
\* its session; tenantId and postBody are optional and present for some
\* flows only.
UrlOf(id) == 100 + id
SessionOf(id) == 200 + id
TenantOf(id) == IF id % 2 = 1 THEN "tenant" ELSE Null
PostBodyOf(id) == IF id >= 2 THEN "postBody" ELSE Null

AuthEvent ==
  { [type |-> t, eventId |-> id, error |-> err,
     urlResponse |-> UrlOf(id), sessionId |-> SessionOf(id),
     postBody |-> PostBodyOf(id), tenantId |-> TenantOf(id)] :
       t \in AuthEventType, id \in EventIdsOrNull,
       err \in EventErrors \cup {NoError} }

\* The lists getPotentialRedirectUsers_() can return for an auth context.
User(uid, rid) == [uid |-> uid, redirectEventId_ |-> rid]
UserLists ==
  { <<User(1, 1), User(2, 1), User(3, NoEventId)>>,
    <<User(1, 2)>> }

NoOutcome == [kind |-> "none"]
NullCred == [kind |-> "null"]

VARIABLES
  auth,            \* this.auth
  users,           \* auth context -> getPotentialRedirectUsers_()
  initialized,     \* isInitialized()
  popupPending,    \* popupOutcomeHandler: eventIds of the Pending Operations
  popupPromise,    \* eventId -> the promise processPopup returned
  opener,          \* eventId -> position of the opener of that flow
  openerAuth,      \* eventId -> the auth the opener of that flow captured
  redirect,        \* redirectOutcomeHandler: the singleton Pending Operation
  redirectCalls,   \* promises returned by getRedirectResult, in call order
  redirectInit,    \* the initializer given to getRedirectPromiseOrInit
  tasks,           \* bag of IdP tasks awaiting `await task(params)`
  unhandled,       \* async calls whose rejection nobody handles
  nEvents,         \* number of events delivered to onEvent
  ret              \* how the most recent onEvent call completed

vars == <<auth, users, initialized, popupPending, popupPromise, opener,
          openerAuth, redirect, redirectCalls, redirectInit, tasks, unhandled,
          nEvents, ret>>

popupVars == <<popupPending, popupPromise>>
redirectVars == <<redirect>>

\* A promise: status, the value or error it settled with, and the number of
\* times resolve/reject was invoked on it.
NewPromise == [status |-> "pending", outcome |-> NoOutcome, settles |-> 0]
NoPromise == [status |-> "none", outcome |-> NoOutcome, settles |-> 0]

Settle(p, cred, error) ==
  [status |-> IF p.status = "pending"
              THEN (IF error # NoError THEN "rejected" ELSE "resolved")
              ELSE p.status,
   outcome |-> IF p.status = "pending"
               THEN (IF error # NoError
                     THEN [kind |-> "error", error |-> error]
                     ELSE [kind |-> "cred", cred |-> cred])
               ELSE p.outcome,
   settles |-> p.settles + 1]

\* ------------------------------------------------ Popup Outcome Handler
\* getNewPendingPromise(opener): registers a Pending Operation keyed by the
\* caller's eventId and returns a promise bound to it.
PopupGetNewPendingPromise(eventId) ==
  /\ popupPending' = popupPending \cup {eventId}
  /\ popupPromise' = [popupPromise EXCEPT ![eventId] = NewPromise]

\* isMatchingEvent(eventId): a Pending Operation with that eventId exists.
PopupIsMatchingEvent(eventId) == eventId \in popupPending

\* broadcastResult that settles every Pending Operation of the handler
PopupBroadcastResult_All(eventId, cred, error) ==
  /\ popupPromise' =
       [e \in EventIds |->
          IF e \in popupPending THEN Settle(popupPromise[e], cred, error)
          ELSE popupPromise[e]]
  /\ popupPending' = {}

\* broadcastResult that settles the Pending Operation and keeps its entry
PopupBroadcastResult_KeepEntry(eventId, cred, error) ==
  IF eventId \in popupPending /\ popupPromise[eventId].status = "pending"
  THEN /\ popupPromise' =
            [popupPromise EXCEPT ![eventId] = Settle(@, cred, error)]
       /\ popupPending' = popupPending
  ELSE UNCHANGED popupVars

\* broadcastResult(cred, error) for the event with the given eventId: settles
\* the one Pending Operation with that eventId and removes it.
PopupBroadcastResult(eventId, cred, error) ==
  IF eventId \in popupPending
  THEN /\ popupPromise' =
            [popupPromise EXCEPT ![eventId] = Settle(@, cred, error)]
       /\ popupPending' = popupPending \ {eventId}
  ELSE UNCHANGED popupVars

\* --------------------------------------------- Redirect Outcome Handler
NoRedirect == [op |-> "none", promise |-> NoPromise, created |-> 0]

\* getRedirectPromiseOrInit that registers a new Pending Operation per call
RedirectGetRedirectPromiseOrInit_AlwaysNew(initializer) ==
  /\ redirect' = [op |-> "pending", promise |-> NewPromise,
                  created |-> redirect.created + 1]
  /\ initializer

\* getRedirectPromiseOrInit(initializer): the existing pending/settled result
\* if there is one, otherwise a new Pending Operation whose initializer runs.
RedirectGetRedirectPromiseOrInit(initializer) ==
  IF redirect.op = "none"
  THEN /\ redirect' = [op |-> "pending", promise |-> NewPromise,
                       created |-> redirect.created + 1]
       /\ initializer
  ELSE UNCHANGED <<redirect, redirectInit>>

\* broadcastResult that settles whatever promise the handler holds
RedirectBroadcastResult_Resettle(cred, error) ==
  IF redirect.op # "none"
  THEN redirect' = [redirect EXCEPT !.op = "settled",
                                    !.promise = Settle(@, cred, error)]
  ELSE UNCHANGED redirect

\* broadcastResult(cred, error): settles the singleton Pending Operation.
RedirectBroadcastResult(cred, error) ==
  IF redirect.op = "pending"
  THEN redirect' = [redirect EXCEPT !.op = "settled",
                                    !.promise = Settle(@, cred, error)]
  ELSE UNCHANGED redirect

\* ------------------------------------------------------------- resolver
\* getOutcomeHandler with LINK_VIA_POPUP listed among the redirect cases
GetOutcomeHandler_LinkPopupAsRedirect(eventType) ==
  CASE eventType \in PopupTypes \ {"LINK_VIA_POPUP"} -> "popup"
    [] eventType \in RedirectTypes \cup {"LINK_VIA_POPUP"} -> "redirect"
    [] OTHER -> "INTERNAL_ERROR"

\* getOutcomeHandler(eventType)
GetOutcomeHandler(eventType) ==
  CASE eventType \in PopupTypes -> "popup"
    [] eventType \in RedirectTypes -> "redirect"
    [] OTHER -> "INTERNAL_ERROR"

\* outcomeHandler.broadcastResult(cred, error), made while handling the
\* event with the given eventId.
BroadcastResult(handler, eventId, cred, error) ==
  CASE handler = "popup" ->
         PopupBroadcastResult(eventId, cred, error) /\ UNCHANGED redirectVars
    [] handler = "redirect" ->
         RedirectBroadcastResult(cred, error) /\ UNCHANGED popupVars
    [] OTHER -> UNCHANGED <<popupVars, redirectVars>>

\* userForEvent(id): the first potential redirect user whose redirectEventId_
\* is id.  Only evaluated when this.auth is set.
UserForEvent(id) ==
  LET us == users[auth]
      hits == {i \in 1..Len(us) : us[i].redirectEventId_ = id}
  IN IF hits = {} THEN NoUser
     ELSE us[CHOOSE i \in hits : \A j \in hits : i <= j]

\* `x || undefined`
OrUndefined(x) == IF x \in {Null, Undefined, ""} THEN Undefined ELSE x

\* execIdpTask that passes the auth of the flow the event's eventId belongs
\* to, where there is one, instead of this.auth
ExecIdpTask_FlowAuth(event, task, user) ==
  [event |-> event,
   task |-> task,
   params |-> [requestUri |-> event.urlResponse,
               sessionId |-> event.sessionId,
               auth |-> IF event.eventId \in EventIds
                           /\ openerAuth[event.eventId] # NoAuth
                        THEN openerAuth[event.eventId] ELSE auth,
               tenantId |-> OrUndefined(event.tenantId),
               postBody |-> OrUndefined(event.postBody),
               user |-> user],
   outcomeHandler |-> GetOutcomeHandler(event.type)]

\* execIdpTask that passes event.sessionId as requestUri and event.urlResponse
\* as sessionId
ExecIdpTask_UrlAsSession(event, task, user) ==
  [event |-> event,
   task |-> task,
   params |-> [requestUri |-> event.sessionId,
               sessionId |-> event.urlResponse,
               auth |-> auth,
               tenantId |-> OrUndefined(event.tenantId),
               postBody |-> OrUndefined(event.postBody),
               user |-> user],
   outcomeHandler |-> GetOutcomeHandler(event.type)]

\* execIdpTask(event, task, user) up to `await task(params)`: the task that
\* is started, with its params and the outcome handler it will report to.
ExecIdpTask(event, task, user) ==
  [event |-> event,
   task |-> task,
   params |-> [requestUri |-> event.urlResponse,
               sessionId |-> event.sessionId,
               auth |-> auth,
               tenantId |-> OrUndefined(event.tenantId),
               postBody |-> OrUndefined(event.postBody),
               user |-> user],
   outcomeHandler |-> GetOutcomeHandler(event.type)]

\* The credential task(params) produces when it succeeds.
Cred(t) == [task |-> t.task, params |-> t.params]

\* line 53: the error short-circuit applies
IsErrorEvent(event) == event.error # NoError /\ event.type # "UNKNOWN"

\* The switch of onEvent without the isMatchingEvent filter of the
\* SIGN_IN_VIA_POPUP case
Dispatch_NoFilter(event, potentialUser) ==
  CASE event.type \in {"SIGN_IN_VIA_POPUP", "SIGN_IN_VIA_REDIRECT"} ->
         {ExecIdpTask(event, "signIn", NoUser)}
    [] event.type \in {"LINK_VIA_POPUP", "LINK_VIA_REDIRECT"} ->
         IF potentialUser # NoUser
         THEN {ExecIdpTask(event, "link", potentialUser)} ELSE {}
    [] event.type \in {"REAUTH_VIA_POPUP", "REAUTH_VIA_REDIRECT"} ->
         IF potentialUser # NoUser
         THEN {ExecIdpTask(event, "reauth", potentialUser)} ELSE {}
    [] OTHER -> {}

\* The switch of onEvent: the set of tasks it starts (none or one).
Dispatch(event, potentialUser) ==
  CASE event.type = "SIGN_IN_VIA_POPUP" ->
         IF ~PopupIsMatchingEvent(event.eventId) THEN {}
         ELSE {ExecIdpTask(event, "signIn", NoUser)}
    [] event.type = "SIGN_IN_VIA_REDIRECT" ->
         {ExecIdpTask(event, "signIn", NoUser)}
    [] event.type \in {"LINK_VIA_POPUP", "LINK_VIA_REDIRECT"} ->
         IF potentialUser # NoUser
         THEN {ExecIdpTask(event, "link", potentialUser)} ELSE {}
    [] event.type \in {"REAUTH_VIA_POPUP", "REAUTH_VIA_REDIRECT"} ->
         IF potentialUser # NoUser
         THEN {ExecIdpTask(event, "reauth", potentialUser)} ELSE {}
    [] OTHER -> {}

\* onEvent with the user correlation of line 58 moved above the error
\* short-circuit
OnEvent_CorrelateFirst(event) ==
  /\ nEvents < MaxEvents
  /\ nEvents' = nEvents + 1
  /\ IF auth = NoAuth
     THEN /\ ret' = "threw"
          /\ UNCHANGED <<tasks, popupVars, redirectVars>>
     ELSE IF IsErrorEvent(event)
     THEN /\ BroadcastResult(GetOutcomeHandler(event.type), event.eventId,
                             NullCred, event.error)
          /\ ret' = "true"
          /\ UNCHANGED tasks
     ELSE /\ tasks' = tasks (+)
                        SetToBag(Dispatch(event, UserForEvent(event.eventId)))
          /\ ret' = "true"
          /\ UNCHANGED <<popupVars, redirectVars>>
  /\ UNCHANGED <<auth, users, initialized, opener, openerAuth, redirectCalls,
                 redirectInit, unhandled>>

\* onEvent that awaits execIdpTask: the task completes and its result is
\* broadcast before onEvent returns
OnEvent_AwaitsTask(event) ==
  /\ nEvents < MaxEvents
  /\ nEvents' = nEvents + 1
  /\ IF IsErrorEvent(event)
     THEN /\ BroadcastResult(GetOutcomeHandler(event.type), event.eventId,
                             NullCred, event.error)
          /\ ret' = "true"
     ELSE IF auth = NoAuth
     THEN /\ ret' = "threw"
          /\ UNCHANGED <<popupVars, redirectVars>>
     ELSE /\ LET started == Dispatch(event, UserForEvent(event.eventId))
             IN IF started = {}
                THEN UNCHANGED <<popupVars, redirectVars>>
                ELSE \E t \in started :
                       BroadcastResult(t.outcomeHandler, t.event.eventId,
                                       Cred(t), NoError)
          /\ ret' = "true"
  /\ UNCHANGED <<auth, users, initialized, opener, openerAuth, redirectCalls,
                 redirectInit, unhandled, tasks>>

\* onEvent(event).  Reading this.auth before it was ever assigned throws.
OnEvent(event) ==
  /\ nEvents < MaxEvents
  /\ nEvents' = nEvents + 1
  /\ IF IsErrorEvent(event)
     THEN /\ BroadcastResult(GetOutcomeHandler(event.type), event.eventId,
                             NullCred, event.error)
          /\ ret' = "true"
          /\ UNCHANGED tasks
     ELSE IF auth = NoAuth
     THEN /\ ret' = "threw"
          /\ UNCHANGED <<tasks, popupVars, redirectVars>>
     ELSE /\ tasks' = tasks (+)
                        SetToBag(Dispatch(event, UserForEvent(event.eventId)))
          /\ ret' = "true"
          /\ UNCHANGED <<popupVars, redirectVars>>
  /\ UNCHANGED <<auth, users, initialized, opener, openerAuth, redirectCalls,
                 redirectInit, unhandled>>

\* execIdpTask that drops the credential task(params) returned
ExecIdpTaskThen_NoBroadcast(t) ==
  /\ t \in BagToSet(tasks)
  /\ tasks' = tasks (-) SetToBag({t})
  /\ UNCHANGED <<auth, users, initialized, popupVars, redirectVars, opener,
                 openerAuth,
                 redirectCalls, redirectInit, unhandled, nEvents, ret>>

\* execIdpTask after `await task(params)` returned a credential
ExecIdpTaskThen(t) ==
  /\ t \in BagToSet(tasks)
  /\ tasks' = tasks (-) SetToBag({t})
  /\ BroadcastResult(t.outcomeHandler, t.event.eventId, Cred(t), NoError)
  /\ UNCHANGED <<auth, users, initialized, opener, openerAuth, redirectCalls,
                 redirectInit, unhandled, nEvents, ret>>

\* execIdpTask without the catch clause: the rejection of task(params)
\* rejects the promise of execIdpTask, which nobody awaits
ExecIdpTaskCatch_NoCatch(t) ==
  /\ t \in BagToSet(tasks)
  /\ tasks' = tasks (-) SetToBag({t})
  /\ unhandled' = unhandled \cup {"execIdpTask"}
  /\ UNCHANGED <<auth, users, initialized, popupVars, redirectVars, opener,
                 openerAuth,
                 redirectCalls, redirectInit, nEvents, ret>>

\* execIdpTask after `await task(params)` threw: the catch clause
ExecIdpTaskCatch(t) ==
  /\ t \in BagToSet(tasks)
  /\ tasks' = tasks (-) SetToBag({t})
  /\ BroadcastResult(t.outcomeHandler, t.event.eventId, NullCred, TaskError)
  /\ UNCHANGED <<auth, users, initialized, opener, openerAuth, redirectCalls,
                 redirectInit, unhandled, nEvents, ret>>

\* processPopup whose opener calls openPopup without consulting
\* isInitialized()
ProcessPopup_NoInitCheck(a, eventId) ==
  /\ popupPromise[eventId].status = "none"
  /\ auth' = a
  /\ PopupGetNewPendingPromise(eventId)
  /\ opener' = [opener EXCEPT ![eventId] = "openPopup"]
  /\ openerAuth' = [openerAuth EXCEPT ![eventId] = a]
  /\ UNCHANGED <<users, initialized, redirect, redirectCalls, redirectInit,
                 tasks, unhandled, nEvents, ret>>

\* processPopup(auth, provider, authType, eventId) up to the first await of
\* the opener.  eventId identifies one flow attempt, so it is a fresh one.
ProcessPopup(a, eventId) ==
  /\ popupPromise[eventId].status = "none"
  /\ auth' = a
  /\ PopupGetNewPendingPromise(eventId)
  /\ opener' = [opener EXCEPT ![eventId] =
                  IF ~initialized THEN "initializeAndWait" ELSE "openPopup"]
  /\ openerAuth' = [openerAuth EXCEPT ![eventId] = a]
  /\ UNCHANGED <<users, initialized, redirect, redirectCalls, redirectInit,
                 tasks, unhandled, nEvents, ret>>

\* the opener resumes after `await this.initializeAndWait(auth)`
OpenerInitialized(eventId) ==
  /\ opener[eventId] = "initializeAndWait"
  /\ initialized' = TRUE
  /\ opener' = [opener EXCEPT ![eventId] = "openPopup"]
  /\ UNCHANGED openerAuth
  /\ UNCHANGED <<auth, users, popupVars, redirect, redirectCalls,
                 redirectInit, tasks, unhandled, nEvents, ret>>

\* initializeAndWait or openPopup rejects: the opener rejects
OpenerFails(eventId) ==
  /\ opener[eventId] \in {"initializeAndWait", "openPopup"}
  /\ opener' = [opener EXCEPT ![eventId] = "failed"]
  /\ UNCHANGED openerAuth
  /\ UNCHANGED <<auth, users, initialized, popupVars, redirect,
                 redirectCalls, redirectInit, tasks, unhandled, nEvents, ret>>

\* the opener resumes after `await this.openPopup(...)` and returns win
OpenerOpened(eventId) ==
  /\ opener[eventId] = "openPopup"
  /\ opener' = [opener EXCEPT ![eventId] = "opened"]
  /\ UNCHANGED openerAuth
  /\ UNCHANGED <<auth, users, initialized, popupVars, redirect,
                 redirectCalls, redirectInit, tasks, unhandled, nEvents, ret>>

\* The initializer of getRedirectResult: starts initializeAndWait without
\* awaiting it.
RedirectInitializer ==
  redirectInit' =
    [runs |-> redirectInit.runs + 1,
     wait |-> IF ~initialized THEN "waiting" ELSE redirectInit.wait]

\* getRedirectResult(auth)
GetRedirectResult(a) ==
  /\ Len(redirectCalls) < MaxRedirectCalls
  /\ auth' = a
  /\ RedirectGetRedirectPromiseOrInit(RedirectInitializer)
  /\ redirectCalls' = Append(redirectCalls, redirect'.created)
  /\ UNCHANGED <<users, initialized, popupVars, opener, openerAuth,
                 tasks, unhandled,
                 nEvents, ret>>

\* the initializeAndWait started by the initializer completes
RedirectInitialized ==
  /\ redirectInit.wait = "waiting"
  /\ redirectInit' = [redirectInit EXCEPT !.wait = "done"]
  /\ initialized' = TRUE
  /\ UNCHANGED <<auth, users, popupVars, opener, openerAuth,
                 redirect, redirectCalls,
                 tasks, unhandled, nEvents, ret>>

\* the initializeAndWait started by the initializer rejects
RedirectInitializeFails ==
  /\ redirectInit.wait = "waiting"
  /\ redirectInit' = [redirectInit EXCEPT !.wait = "failed"]
  /\ unhandled' = unhandled \cup {"initializeAndWait"}
  /\ UNCHANGED <<auth, users, initialized, popupVars, opener, openerAuth,
                 redirect,
                 redirectCalls, tasks, nEvents, ret>>

Init ==
  /\ auth = NoAuth
  /\ \E l \in UserLists : users = [a \in Auths |-> l]
  /\ initialized \in BOOLEAN
  /\ popupPending = {}
  /\ popupPromise = [e \in EventIds |-> NoPromise]
  /\ opener = [e \in EventIds |-> "idle"]
  /\ openerAuth = [e \in EventIds |-> NoAuth]
  /\ redirect = NoRedirect
  /\ redirectCalls = <<>>
  /\ redirectInit = [runs |-> 0, wait |-> "none"]
  /\ tasks = EmptyBag
  /\ unhandled = {}
  /\ nEvents = 0
  /\ ret = "none"

Next ==
  \/ \E a \in CallerAuths, e \in EventIds : ProcessPopup(a, e)
  \/ \E a \in CallerAuths : GetRedirectResult(a)
  \/ \E event \in AuthEvent : OnEvent(event)
  \/ \E t \in BagToSet(tasks) : ExecIdpTaskThen(t)
  \/ \E t \in BagToSet(tasks) : ExecIdpTaskCatch(t)

NextHost ==
  \/ \E a \in CallerAuths, e \in EventIds : ProcessPopup(a, e)
  \/ \E a \in CallerAuths : GetRedirectResult(a)
  \/ \E e \in EventIds : OpenerInitialized(e)
  \/ \E e \in EventIds : OpenerFails(e)
  \/ \E e \in EventIds : OpenerOpened(e)
  \/ RedirectInitialized
  \/ RedirectInitializeFails

Spec == Init /\ [][Next]_vars

SpecHost == Init /\ [][NextHost]_vars

\* Two auth contexts with different user sessions: both hold a session for
\* eventId 1, and only a2 holds one for eventId 2.
UsersByAuth ==
  [a \in Auths |->
     IF a = "a1" THEN <<User(1, 1), User(3, NoEventId)>>
     ELSE <<User(4, 1), User(5, 2)>>]

InitAuth ==
  /\ auth = NoAuth
  /\ users = UsersByAuth
  /\ initialized = TRUE
  /\ popupPending = {}
  /\ popupPromise = [e \in EventIds |-> NoPromise]
  /\ opener = [e \in EventIds |-> "idle"]
  /\ openerAuth = [e \in EventIds |-> NoAuth]
  /\ redirect = NoRedirect
  /\ redirectCalls = <<>>
  /\ redirectInit = [runs |-> 0, wait |-> "none"]
  /\ tasks = EmptyBag
  /\ unhandled = {}
  /\ nEvents = 0
  /\ ret = "none"

\* Callers with either auth context and events without error (an error
\* event reads no auth context).  The tasks stay in flight: their
\* completions read and write neither this.auth nor the other tasks.
NextAuth ==
  \/ \E a \in Auths, e \in EventIds : ProcessPopup(a, e)
  \/ \E a \in Auths : GetRedirectResult(a)
  \/ \E event \in {ev \in AuthEvent : ev.error = NoError} : OnEvent(event)

SpecAuth == InitAuth /\ [][NextAuth]_vars

\* An IdP task that was started terminates: `await task(params)` returns or
\* throws.
TaskTerminates ==
  \E t \in BagToSet(tasks) : ExecIdpTaskThen(t) \/ ExecIdpTaskCatch(t)

SpecLive == Init /\ [][Next]_vars /\ WF_vars(TaskTerminates)

\* ------------------------------------------------------------ properties
\* The tasks a step starts.
Started == tasks' (-) tasks

\* Events by what onEvent is to do with them.
ErrorFree == {ev \in AuthEvent : ev.error = NoError}
PopupEvents == {ev \in AuthEvent : ev.type \in PopupTypes}
PopupErrorEvents == {ev \in PopupEvents : ev.error # NoError}
SignInPopupEvents == {ev \in ErrorFree : ev.type = "SIGN_IN_VIA_POPUP"}
SignInRedirectEvents == {ev \in ErrorFree : ev.type = "SIGN_IN_VIA_REDIRECT"}
LinkEvents ==
  {ev \in ErrorFree : ev.type \in {"LINK_VIA_POPUP", "LINK_VIA_REDIRECT"}}
ReauthEvents ==
  {ev \in ErrorFree : ev.type \in {"REAUTH_VIA_POPUP", "REAUTH_VIA_REDIRECT"}}

\* A Pending Operation of the popup flow with this eventId exists and is
\* unsettled.
PopupUnsettled(id) == id \in EventIds /\ popupPromise[id].status = "pending"

Rejected(error) ==
  [status |-> "rejected", outcome |-> [kind |-> "error", error |-> error],
   settles |-> 1]

Resolved(cred) ==
  [status |-> "resolved", outcome |-> [kind |-> "cred", cred |-> cred],
   settles |-> 1]

\* C1: for a SIGN_IN_VIA_POPUP event without error, onEvent starts the
\* sign-in task (exactly one, for this event) if and only if
\* isMatchingEvent(event.eventId) holds when the event is processed, which is
\* the case exactly when a popup Pending Operation with that eventId exists
\* and is unsettled; otherwise no task starts and no handler changes.
C1_SignInPopupIffMatching ==
  [][\A ev \in SignInPopupEvents :
       OnEvent(ev)
       => /\ PopupIsMatchingEvent(ev.eventId) <=> PopupUnsettled(ev.eventId)
          /\ PopupUnsettled(ev.eventId)
             => /\ BagCardinality(Started) = 1
                /\ \A t \in BagToSet(Started) :
                     t.task = "signIn" /\ t.event = ev
          /\ ~PopupUnsettled(ev.eventId)
             => /\ tasks' = tasks
                /\ UNCHANGED <<popupVars, redirectVars>>]_vars

C1_Witness ==
  \E t \in BagToSet(tasks) :
    /\ t.event.type = "SIGN_IN_VIA_POPUP"
    /\ t.task = "signIn"
    /\ PopupUnsettled(t.event.eventId)

\* C2: a popup-type event that carries an error and whose eventId matches a
\* pending popup operation makes onEvent reject exactly that popup's promise
\* with the event's error; every other popup promise and the redirect
\* operation are left as they were and no IdP task starts.
C2_PopupErrorRejectsThatPopup ==
  [][\A ev \in PopupErrorEvents :
       (PopupUnsettled(ev.eventId) /\ OnEvent(ev))
       => /\ popupPromise'[ev.eventId] = Rejected(ev.error)
          /\ \A o \in EventIds \ {ev.eventId} :
               popupPromise'[o] = popupPromise[o]
          /\ redirect' = redirect
          /\ tasks' = tasks
          /\ ret' = "true"]_vars

C2_Witness ==
  \E e, o \in EventIds :
    /\ popupPromise[e] = Rejected("eventError")
    /\ popupPromise[o].status = "pending"
    /\ redirect.op = "pending"
    /\ tasks = EmptyBag

\* C3: with several popup flows pending under distinct eventIds, whatever
\* the order of events and of task completions, the step that settles the
\* promise of flow e is the error short-circuit of an event with eventId e
\* or the completion of the task of an event with eventId e, and the promise
\* takes that event's outcome.
C3_SettledByOwnEvent ==
  [][\A e \in EventIds :
       (popupPromise[e].status = "pending"
          /\ popupPromise'[e].status # "pending")
       => \/ \E ev \in PopupErrorEvents :
               /\ ev.eventId = e
               /\ OnEvent(ev)
               /\ popupPromise'[e] = Rejected(ev.error)
          \/ \E t \in BagToSet(tasks) :
               /\ t.event.eventId = e
               /\ \/ ExecIdpTaskThen(t) /\ popupPromise'[e] = Resolved(Cred(t))
                  \/ ExecIdpTaskCatch(t)
                       /\ popupPromise'[e] = Rejected(TaskError)]_vars

C3_Witness ==
  \E e, o \in EventIds :
    /\ e # o
    /\ popupPromise[e].status = "resolved"
    /\ popupPromise[e].outcome.cred.params.requestUri = UrlOf(e)
    /\ popupPromise[o].status = "pending"
    /\ \E t \in BagToSet(tasks) :
         t.event.eventId = o /\ t.outcomeHandler = "popup"

\* C4: in every reachable state each Pending Operation, popup or redirect,
\* has been settled at most once.
C4_SettledAtMostOnce ==
  /\ \A e \in EventIds : popupPromise[e].settles <= 1
  /\ redirect.promise.settles <= 1

\* a settled redirect operation with a second broadcast for it still due, and
\* a popup operation settled by the first of two events of its eventId
C4_Witness ==
  /\ redirect.op = "settled"
  /\ redirect.promise.settles = 1
  /\ \E t \in BagToSet(tasks) : t.outcomeHandler = "redirect"

\* C5: a getRedirectResult call made while the redirect Pending Operation of
\* an earlier call is unsettled returns the promise the earlier call
\* returned, creates no second Pending Operation, and leaves the initializer
\* run exactly once in total.
C5_SecondCallSamePromise ==
  [][\A a \in Auths :
       (redirect.op = "pending" /\ GetRedirectResult(a))
       => /\ redirectCalls'[Len(redirectCalls')]
               = redirectCalls[Len(redirectCalls)]
          /\ redirect' = redirect
          /\ redirect'.created = 1
          /\ redirectInit'.runs = 1]_vars

C5_Witness ==
  /\ Len(redirectCalls) = 2
  /\ redirect.op = "pending"
  /\ redirectInit.runs = 1
  /\ redirectCalls[1] = redirectCalls[2]

\* C6: when an IdP task started by onEvent fails, the catch clause delivers
\* broadcastResult(null, error) to the handler owning the event's type (a
\* pending operation of that handler is rejected with the task's error, the
\* other handler is untouched); the failure is no unhandled rejection and
\* does not change how onEvent completed.
C6_TaskFailureBroadcast ==
  [][\A t \in BagToSet(tasks) :
       ExecIdpTaskCatch(t)
       => /\ t.event.type \in PopupTypes
             => /\ PopupUnsettled(t.event.eventId)
                   => popupPromise'[t.event.eventId] = Rejected(TaskError)
                /\ redirect' = redirect
          /\ t.event.type \in RedirectTypes
             => /\ redirect.op = "pending"
                   => redirect'.promise = Rejected(TaskError)
                /\ popupPromise' = popupPromise
          /\ "execIdpTask" \notin unhandled'
          /\ ret' = ret]_vars

C6_Witness ==
  /\ \E e \in EventIds : popupPromise[e] = Rejected(TaskError)
  /\ "execIdpTask" \notin unhandled
  /\ ret = "true"

\* The local user sessions onEvent can consult, and the positions of those
\* whose redirectEventId_ is the given eventId.
Sessions == IF auth = NoAuth THEN <<>> ELSE users[auth]
Matching(id) == {i \in 1..Len(Sessions) : Sessions[i].redirectEventId_ = id}
FirstMatching(id) == Sessions[CHOOSE i \in Matching(id) :
                                \A j \in Matching(id) : i <= j]

\* C7: for every event of the seven types, with or without error, in every
\* resolver state, onEvent completes with true and does not fail.
C7_OnEventAlwaysTrue == nEvents > 0 => ret = "true"

\* C8: for a LINK_VIA_* or REAUTH_VIA_* event without error, onEvent starts
\* the link (resp. reauthenticate) task with the matched user if and only if
\* a local user session has redirectEventId_ = event.eventId; when none
\* matches no task starts and no handler changes; onEvent returns true.
C8_LinkReauthIffUserMatches ==
  [][\A ev \in LinkEvents \cup ReauthEvents :
       OnEvent(ev)
       => /\ Matching(ev.eventId) # {}
             => /\ BagCardinality(Started) = 1
                /\ \A t \in BagToSet(Started) :
                     /\ t.event = ev
                     /\ t.task = IF ev \in LinkEvents THEN "link"
                                 ELSE "reauth"
                     /\ t.params.user = FirstMatching(ev.eventId)
          /\ Matching(ev.eventId) = {}
             => /\ tasks' = tasks
                /\ UNCHANGED <<popupVars, redirectVars>>
          /\ ret' = "true"]_vars

\* C9: every SIGN_IN_VIA_REDIRECT event without error starts exactly one
\* sign-in task, whatever the state of the two handlers and whether or not a
\* local user matches its eventId.
C9_RedirectSignInAlwaysRuns ==
  [][\A ev \in SignInRedirectEvents :
       OnEvent(ev)
       => /\ BagCardinality(Started) = 1
          /\ \A t \in BagToSet(Started) :
               t.task = "signIn" /\ t.event = ev]_vars

\* C10 as claimed: a popup-type event, with or without error, whose eventId
\* matches no pending popup operation is dropped: it starts no task and
\* settles nothing.
C10_UnmatchedPopupEventDropped ==
  [][\A ev \in PopupEvents :
       (~PopupUnsettled(ev.eventId) /\ OnEvent(ev))
       => /\ tasks' = tasks
          /\ UNCHANGED <<popupVars, redirectVars>>]_vars

\* C10, amended: a popup-type event whose eventId matches no pending popup
\* operation settles no Pending Operation while onEvent processes it and
\* leaves the popup promises of other eventIds pending; it starts no task
\* if it carries an error or is a SIGN_IN_VIA_POPUP event, while a
\* LINK_VIA_POPUP or REAUTH_VIA_POPUP event without error still starts its
\* task, and does so only when a local user session matches its eventId.
\* Stated per step: a step of onEvent that changes a handler is not the step
\* of such an event, and a task started for such an event is the one link
\* or reauthenticate task of an error-free event that a session matches.
C10_UnmatchedPopupEventSettlesNothing ==
  [][/\ (popupVars' # popupVars \/ redirectVars' # redirectVars)
        => \A ev \in PopupEvents :
             OnEvent(ev) => PopupUnsettled(ev.eventId)
     /\ \A t \in BagToSet(Started) :
          (t.event.type \in PopupTypes /\ ~PopupUnsettled(t.event.eventId))
          => /\ t.event.error = NoError
             /\ t.event.type # "SIGN_IN_VIA_POPUP"
             /\ t.task = IF t.event.type = "LINK_VIA_POPUP" THEN "link"
                         ELSE "reauth"
             /\ Matching(t.event.eventId) # {}
             /\ t.params.user = FirstMatching(t.event.eventId)
             /\ BagCardinality(Started) = 1]_vars

C10_Witness ==
  \E t \in BagToSet(tasks), o \in EventIds :
    /\ t.event.type \in {"LINK_VIA_POPUP", "REAUTH_VIA_POPUP"}
    /\ t.event.eventId \in EventIds
    /\ popupPromise[t.event.eventId].status = "none"
    /\ popupPromise[o].status = "pending"

\* Events that take the error short-circuit of onEvent.
ErrorEvents == {ev \in AuthEvent : IsErrorEvent(ev)}

\* The operation an error event is to reject is pending.
PendingFor(ev) ==
  IF ev.type \in PopupTypes THEN PopupUnsettled(ev.eventId)
  ELSE redirect.op = "pending"

\* What onEvent is to do with the error event ev.
ErrorBroadcast(ev) ==
  /\ ev.type \in PopupTypes
     => /\ redirect' = redirect
        /\ \A o \in EventIds \ {ev.eventId} :
             popupPromise'[o] = popupPromise[o]
        /\ IF PopupUnsettled(ev.eventId)
           THEN popupPromise'[ev.eventId] = Rejected(ev.error)
           ELSE UNCHANGED popupVars
  /\ ev.type \in RedirectTypes
     => /\ UNCHANGED popupVars
        /\ IF redirect.op = "pending"
           THEN redirect'.promise = Rejected(ev.error)
           ELSE redirect' = redirect
  /\ tasks' = tasks
  /\ ret' = "true"

\* C11: for every event with error set and type other than UNKNOWN, onEvent
\* makes one broadcastResult(null, event.error) on the handler owning the
\* event's type: a pending operation of that handler (for popup, the one with
\* the event's eventId) is rejected, once, with exactly the event's error;
\* the other handler and every other popup promise are untouched, no task
\* starts, and onEvent returns true even when this.auth was never assigned,
\* so no user correlation is attempted.
\* Stated per step of onEvent: a step that changes a handler and is the step
\* of an error event does to the handlers what ErrorBroadcast says; a step
\* that changes no handler is not the step of an error event whose operation
\* is pending, and if it starts a task or does not return true it is not the
\* step of an error event at all.
C11_ErrorShortCircuit ==
  [][nEvents' # nEvents
     => IF popupVars' # popupVars \/ redirectVars' # redirectVars
        THEN \A ev \in ErrorEvents : OnEvent(ev) => ErrorBroadcast(ev)
        ELSE /\ \A ev \in ErrorEvents : PendingFor(ev) => ~OnEvent(ev)
             /\ (tasks' # tasks \/ ret' # "true")
                => \A ev \in ErrorEvents : ~OnEvent(ev)]_vars

\* an error event of a redirect type rejected the redirect operation while a
\* popup flow stays pending and no task was started
C11_Witness ==
  /\ redirect.promise = Rejected("eventError")
  /\ popupPending # {}
  /\ tasks = EmptyBag
  /\ ret = "true"

\* What `field || undefined` is to yield: the event's value when the event
\* has one, otherwise absent.
Optional(field) == IF field = Null THEN Undefined ELSE field

\* C12: when an IdP task succeeds, its credential goes to broadcastResult on
\* the handler owning the event's type (a pending operation of that handler
\* resolves with it, the other handler is untouched); the task ran with
\* requestUri = event.urlResponse, sessionId = event.sessionId, tenantId and
\* postBody from the event (absent when the event has none), user = the
\* session correlated with the event's eventId for link/reauth and no user
\* for sign-in; so the promise of popup flow e, when a sign-in task resolves
\* it, holds the credential made from flow e's urlResponse and sessionId.
C12_TaskSuccessBroadcast ==
  [][\A t \in BagToSet(tasks) :
       ExecIdpTaskThen(t)
       => /\ t.params.requestUri = t.event.urlResponse
          /\ t.params.sessionId = t.event.sessionId
          /\ t.params.tenantId = Optional(t.event.tenantId)
          /\ t.params.postBody = Optional(t.event.postBody)
          /\ t.task = "signIn" => t.params.user = NoUser
          /\ t.task \in {"link", "reauth"}
             => /\ t.params.user # NoUser
                /\ t.params.user.redirectEventId_ = t.event.eventId
                /\ \E i \in 1..Len(users[t.params.auth]) :
                     users[t.params.auth][i] = t.params.user
          /\ t.event.type \in PopupTypes
             => /\ PopupUnsettled(t.event.eventId)
                   => /\ popupPromise'[t.event.eventId] = Resolved(Cred(t))
                      /\ t.task = "signIn"
                         => /\ popupPromise'[t.event.eventId]
                                 .outcome.cred.params.requestUri
                                 = UrlOf(t.event.eventId)
                            /\ popupPromise'[t.event.eventId]
                                 .outcome.cred.params.sessionId
                                 = SessionOf(t.event.eventId)
                /\ redirect' = redirect
          /\ t.event.type \in RedirectTypes
             => /\ redirect.op = "pending"
                   => redirect'.promise = Resolved(Cred(t))
                /\ UNCHANGED popupVars]_vars

\* a popup flow resolved with the credential of a link or reauthenticate
\* task that ran for a correlated user and with a tenantId or postBody
C12_Witness ==
  \E e \in EventIds :
    /\ popupPromise[e].status = "resolved"
    /\ popupPromise[e].outcome.cred.task \in {"link", "reauth"}
    /\ popupPromise[e].outcome.cred.params.user.redirectEventId_ = e
    /\ popupPromise[e].outcome.cred.params.requestUri = UrlOf(e)
    /\ \/ popupPromise[e].outcome.cred.params.tenantId # Undefined
       \/ popupPromise[e].outcome.cred.params.postBody # Undefined

\* The tasks in flight that will report to the popup handler for eventId e.
PopupTasks(e) ==
  {t \in BagToSet(tasks) : t.outcomeHandler = "popup" /\ t.event.eventId = e}

UnknownEvents == {ev \in AuthEvent : ev.type = "UNKNOWN"}

\* C14: an UNKNOWN event, with or without error, touches no handler, starts
\* no task and onEvent returns true for it; and no step of onEvent, for any
\* event of the seven types, starts a task whose getOutcomeHandler call
\* raises the internal error.
C14_UnknownDropped ==
  [][/\ \A ev \in UnknownEvents :
          OnEvent(ev)
          => /\ UNCHANGED <<popupVars, redirectVars>>
             /\ tasks' = tasks
             /\ ret' = "true"
     /\ \A t \in BagToSet(Started) : t.outcomeHandler # "INTERNAL_ERROR"]_vars

\* C15: in a popup flow, openPopup is not invoked while the resolver is
\* uninitialized.  The opener calls initializeAndWait only when
\* isInitialized() is false; it calls openPopup either at once, when
\* isInitialized() is true, or when its own initializeAndWait has completed;
\* an opener that failed calls nothing afterwards; and whenever an opener is
\* at or past its openPopup call the host is initialized.
C15_OpenPopupAfterInitialization ==
  [][\A e \in EventIds :
       /\ (opener'[e] = "initializeAndWait" /\ opener[e] # "initializeAndWait")
          => ~initialized /\ opener[e] = "idle"
       /\ (opener'[e] = "openPopup" /\ opener[e] # "openPopup")
          => \/ opener[e] = "idle" /\ initialized
             \/ opener[e] = "initializeAndWait" /\ OpenerInitialized(e)
       /\ opener[e] = "failed" => opener'[e] = "failed"
       /\ opener'[e] \in {"openPopup", "opened"} => initialized']_vars

\* a flow started on an uninitialized host has its popup open: the host
\* was uninitialized when flow o started (o still awaits initializeAndWait),
\* no redirect initialization completed, and flow e is past openPopup
C15_Witness ==
  \E e, o \in EventIds :
    /\ opener[e] = "opened"
    /\ opener[o] = "initializeAndWait"
    /\ initialized
    /\ redirectInit.wait # "done"

\* C16: in a redirect flow resumed on an uninitialized resolver the
\* initializer given to getRedirectPromiseOrInit has not finished while the
\* initializeAndWait it started is outstanding, and a failure of
\* initializeAndWait is not lost as an unhandled rejection.
C16_InitializerAwaitsInitialization ==
  /\ redirectInit.wait = "waiting" => redirectInit.runs = 0
  /\ "initializeAndWait" \notin unhandled

\* C17: for one pending popup operation the sign-in task, and with it the
\* broadcastResult that follows, happens at most once however often its
\* SIGN_IN_VIA_POPUP event is delivered: no two sign-in tasks are in flight
\* for the same popup event.
C17_SignInTaskAtMostOnce ==
  \A t \in BagToSet(tasks) :
    t.event.type = "SIGN_IN_VIA_POPUP" => CopiesIn(t, tasks) <= 1

\* C18: in every reachable state the registry of the popup handler holds
\* exactly the eventIds of the popup flows that were started and are not
\* settled, so isMatchingEvent(e) is true iff flow e is started and
\* unsettled (and false for the null eventId).
C18_RegistryIsStartedUnsettled ==
  /\ popupPending = {e \in EventIds : popupPromise[e].status = "pending"}
  /\ \A id \in EventIdsOrNull : PopupIsMatchingEvent(id) <=> PopupUnsettled(id)

\* a flow settled by the exception of its task has left the registry while
\* another flow, whose task is in flight, is still registered
C18_Witness ==
  \E e, o \in EventIds :
    /\ popupPromise[e] = Rejected(TaskError)
    /\ e \notin popupPending
    /\ o \in popupPending
    /\ PopupTasks(o) # {}

\* The outcome a promise took in this step, if it was settled in it.
SettledWith(p, q) == IF p.status = "pending" /\ q.status # "pending"
                     THEN {q.outcome} ELSE {}
OutcomesOfStep ==
  UNION ({SettledWith(popupPromise[e], popupPromise'[e]) : e \in EventIds}
           \cup {SettledWith(redirect.promise, redirect'.promise)})

\* C19: onEvent does not wait for the IdP task it starts.  A step of onEvent
\* that starts a task has returned true with the task in flight and has
\* broadcast nothing; the only settlement made within a step of onEvent is
\* the rejection with an error event's error; the result of a task is
\* broadcast in a later step, which removes the task and is no step of
\* onEvent; and while a task is in flight onEvent can process the next event.
C19_OnEventDoesNotAwaitTask ==
  /\ [][/\ nEvents' # nEvents
           => /\ Started # EmptyBag
                 => /\ ret' = "true"
                    /\ BagCardinality(Started) = 1
                    /\ UNCHANGED <<popupVars, redirectVars>>
              /\ \A o \in OutcomesOfStep :
                   o.kind = "error" /\ o.error \in EventErrors
        /\ (nEvents' = nEvents /\ OutcomesOfStep # {})
           => /\ \E t \in BagToSet(tasks) :
                   /\ tasks' = tasks (-) SetToBag({t})
                   /\ OutcomesOfStep \subseteq
                        {[kind |-> "cred", cred |-> Cred(t)],
                         [kind |-> "error", error |-> TaskError]}
              /\ ret' = ret]_vars
  /\ []((tasks # EmptyBag /\ nEvents < MaxEvents)
          => ENABLED (\E ev \in AuthEvent : OnEvent(ev)))

\* the sign-in task of popup flow e is still in flight although the error
\* event of flow e, which can only have arrived after the sign-in event
\* passed isMatchingEvent, has already been broadcast: the later event was
\* processed, and its result delivered, before the earlier event's task
\* completed
C19_Witness ==
  \E t \in BagToSet(tasks) :
    /\ t.event.type = "SIGN_IN_VIA_POPUP"
    /\ t.task = "signIn"
    /\ popupPromise[t.event.eventId] = Rejected("eventError")
    /\ ret = "true"

\* C20: the auth context used for an event is this.auth as the most recent
\* processPopup or getRedirectResult call left it when onEvent processes the
\* event: those calls, and only they, assign it, with the auth they were
\* given; a task that onEvent starts carries the current this.auth, and its
\* user, for link and reauthenticate, is looked up in that context's
\* sessions, whatever auth the flow of the event's eventId was started with;
\* a call leaves the tasks already started, and their auth, as they are.
C20_AuthOfMostRecentCall ==
  [][/\ \A a \in Auths :
          /\ GetRedirectResult(a) => auth' = a /\ tasks' = tasks
          /\ \A e \in EventIds :
               ProcessPopup(a, e) => auth' = a /\ tasks' = tasks
     /\ auth' # auth
        => \E a \in Auths :
             \/ GetRedirectResult(a)
             \/ \E e \in EventIds : ProcessPopup(a, e)
     /\ \A t \in BagToSet(Started) :
          /\ t.params.auth = auth
          /\ t.task \in {"link", "reauth"}
             => /\ Matching(t.event.eventId) # {}
                /\ t.params.user = FirstMatching(t.event.eventId)
          /\ CopiesIn(t, tasks') = CopiesIn(t, tasks) + 1
     /\ \A t \in BagToSet(tasks) : CopiesIn(t, tasks') <= CopiesIn(t, tasks) + 1
    ]_vars

\* flow e was started with auth a1; a task started before the later call
\* with a2 still carries a1, and the link task of flow e's event, processed
\* after that call, carries a2 and a session of a2
C20_Witness ==
  \E t, u \in BagToSet(tasks) :
    /\ t.event.type = "LINK_VIA_POPUP"
    /\ t.event.eventId \in EventIds
    /\ openerAuth[t.event.eventId] = "a1"
    /\ t.params.auth = "a2"
    /\ t.params.user = User(4, 1)
    /\ u.params.auth = "a1"
    /\ auth = "a2"

====
